---- MODULE Spec2Model ----
(***************************************************************************)
(* Model of the shell-command pipeline of simple-assistant:                *)
(*   utils/command_guard.py   sanitize_command, detect_direct_command      *)
(*   services/ollama.py       translate_instruction_to_command,            *)
(*                            call_tool_with_tldr                          *)
(*   services/ollama_translation.py, services/ollama_tools.py              *)
(*                            the same two functions as the tool loop of   *)
(*                            generate_content uses them                   *)
(*   tools/agent.py           ShellAgent.shell_agent                       *)
(* A command is a sequence of one-character strings; a shell word (token)  *)
(* is a sequence of characters too and is turned into a string only to be  *)
(* looked up in the allow-list.                                            *)
(***************************************************************************)
EXTENDS Integers, Sequences, FiniteSets, TLC

VARIABLES
    prompt,                 \* the text handed to the operation under analysis
    pc,                     \* "start", "sanitized", "executed"
    ret,                    \* what sanitize_command returned (None or a command)
    last_sanitize_error,    \* utils.command_guard._last_sanitize_error
    last_translation_error, \* services.ollama._last_command_translation_error
    chats,                  \* number of LLM chat requests issued
    spawned,                \* the strings handed to subprocess.run, in order
    result,                 \* the dictionary returned by shell_agent
    before,                 \* _last_sanitize_error when the latest call started
    threads,                \* per worker thread: the locals of its translation
    frame                   \* the locals of one call_tool_with_tldr call

vars == <<prompt, pc, ret, last_sanitize_error, last_translation_error,
          chats, spawned, result, before, threads, frame>>

-----------------------------------------------------------------------------
(* Bounds of the input space *)

\* the longest command handed to sanitize_command, in words of Vocabulary
MaxWords == 4

\* the longest prompt handed to shell_agent, in words of Vocabulary
MaxPromptWords == 3

\* the lexical pieces commands are assembled from
Vocabulary ==
    { <<"l", "s">>,
      <<"r", "m">>,
      <<"f", "i", "n", "d">>,
      <<"S", "u", "D", "o">>,
      <<" ">>,
      <<" ", "/">>,
      <<" ", "|", " ">>,
      <<" ", "&", "&", " ">>,
      <<"|">>,
      <<";">>,
      <<"\"">>,
      <<"\\">>,
      <<"\n">>,
      <<"$", "(", "l", "s", ")">> }

\* the text a sequence of words spells
RECURSIVE Flatten(_)
Flatten(ws) == IF ws = << >> THEN << >> ELSE Head(ws) \o Flatten(Tail(ws))

\* text is spelled by at most n words of Vocabulary
IsTextUpTo(text, n) ==
    \E k \in 0..n : \E ws \in [1..k -> Vocabulary] : text = Flatten(ws)

\* text is spelled by at most n of the given words
IsTextOver(text, n, words) ==
    \E k \in 0..n : \E ws \in [1..k -> words] : text = Flatten(ws)

\* Python's None, for an Optional[str] that holds a command
None == << "None" >>

\* Python's None, for an Optional[str] that holds a reason
NoError == "None"

-----------------------------------------------------------------------------
(* str helpers *)

\* characters str.strip() removes (of the model's alphabet)
StripChars == { " ", "\t", "\n", "\r" }

\* the first index of s from i on that holds no strip character (Len(s) + 1
\* when there is none)
RECURSIVE SkipLeft(_, _)
SkipLeft(s, i) ==
    IF i <= Len(s) /\ s[i] \in StripChars THEN SkipLeft(s, i + 1) ELSE i

\* the last index of s down from i that holds no strip character (0 when
\* there is none)
RECURSIVE SkipRight(_, _)
SkipRight(s, i) ==
    IF i >= 1 /\ s[i] \in StripChars THEN SkipRight(s, i - 1) ELSE i

\* a strip that removes at most one character from each end
StripOnce(s) ==
    LET left == IF s # << >> /\ Head(s) \in StripChars THEN Tail(s) ELSE s
    IN  IF left # << >> /\ left[Len(left)] \in StripChars
            THEN SubSeq(left, 1, Len(left) - 1)
        ELSE left

\* str.strip()
Strip(s) == SubSeq(s, SkipLeft(s, 1), SkipRight(s, Len(s)))

LowerCase == << "a", "b", "c", "d", "e", "f", "g", "h", "i", "j", "k", "l", "m",
               "n", "o", "p", "q", "r", "s", "t", "u", "v", "w", "x", "y", "z" >>
UpperCase == << "A", "B", "C", "D", "E", "F", "G", "H", "I", "J", "K", "L", "M",
               "N", "O", "P", "Q", "R", "S", "T", "U", "V", "W", "X", "Y", "Z" >>

\* the lower-case letter of each upper-case letter, and the converse
ToLower == [c \in { UpperCase[k] : k \in 1..26 } |->
               LowerCase[CHOOSE k \in 1..26 : UpperCase[k] = c]]
ToUpper == [c \in { LowerCase[k] : k \in 1..26 } |->
               UpperCase[CHOOSE k \in 1..26 : LowerCase[k] = c]]

\* str.lower(), one character
LowerChar(c) == IF c \in DOMAIN ToLower THEN ToLower[c] ELSE c

\* str.upper(), one character
UpperChar(c) == IF c \in DOMAIN ToUpper THEN ToUpper[c] ELSE c

\* str.lower()
Lower(s) == [i \in 1..Len(s) |-> LowerChar(s[i])]

\* str.upper()
Upper(s) == [i \in 1..Len(s) |-> UpperChar(s[i])]

\* str.startswith(prefix)
StartsWith(s, prefix) ==
    Len(s) >= Len(prefix) /\ SubSeq(s, 1, Len(prefix)) = prefix

\* "x in s" for a single character x
Contains(s, c) == \E i \in 1..Len(s) : s[i] = c

\* the Python string a sequence of characters stands for
RECURSIVE Str(_)
Str(s) == IF s = <<>> THEN "" ELSE Head(s) \o Str(Tail(s))

\* repr() of a str, as an f-string's {token!r} renders it
ReprChar(c, q) ==
    CASE c = "\\" -> "\\\\"
      [] c = "\n" -> "\\n"
      [] c = "\t" -> "\\t"
      [] c = "\r" -> "\\r"
      [] c = q    -> "\\" \o q
      [] OTHER    -> c

RECURSIVE ReprBody(_, _)
ReprBody(s, q) ==
    IF s = <<>> THEN "" ELSE ReprChar(Head(s), q) \o ReprBody(Tail(s), q)

Repr(s) ==
    LET q == IF Contains(s, "'") /\ ~Contains(s, "\"") THEN "\"" ELSE "'"
    IN  q \o ReprBody(s, q) \o q

-----------------------------------------------------------------------------
(* shlex.split(command): POSIX mode, whitespace_split, no comment characters *)

ShlexWhitespace == { " ", "\t", "\r", "\n" }
ShlexQuotes     == { "'", "\"" }
ShlexEscape     == "\\"
ShlexEscapedQuotes == { "\"" }

\* the token under construction is emitted when it is non-empty or was quoted
Emit(parts, token, quoted) ==
    IF token # <<>> \/ quoted THEN Append(parts, token) ELSE parts

\* shlex.read_token, iterated over the whole text.  state is " " between
\* tokens, "a" inside a word, a quote character inside quotes and the escape
\* character right after a backslash.
RECURSIVE Lex(_, _, _, _, _, _, _)
Lex(s, i, state, escapedstate, token, quoted, parts) ==
    IF i > Len(s) THEN
        IF state \in ShlexQuotes
            THEN [ok |-> FALSE, error |-> "No closing quotation", parts |-> <<>>]
        ELSE IF state = ShlexEscape
            THEN [ok |-> FALSE, error |-> "No escaped character", parts |-> <<>>]
        ELSE [ok |-> TRUE, error |-> "", parts |-> Emit(parts, token, quoted)]
    ELSE LET c == s[i] IN
        IF state = " " THEN
            IF c \in ShlexWhitespace
                THEN Lex(s, i + 1, " ", escapedstate, token, quoted, parts)
            ELSE IF c = ShlexEscape
                THEN Lex(s, i + 1, c, "a", token, quoted, parts)
            ELSE IF c \in ShlexQuotes
                THEN Lex(s, i + 1, c, escapedstate, token, quoted, parts)
            ELSE Lex(s, i + 1, "a", escapedstate, <<c>>, quoted, parts)
        ELSE IF state \in ShlexQuotes THEN
            IF c = state
                THEN Lex(s, i + 1, "a", escapedstate, token, TRUE, parts)
            ELSE IF c = ShlexEscape /\ state \in ShlexEscapedQuotes
                THEN Lex(s, i + 1, c, state, token, TRUE, parts)
            ELSE Lex(s, i + 1, state, escapedstate, Append(token, c), TRUE, parts)
        ELSE IF state = ShlexEscape THEN
            LET kept == IF /\ escapedstate \in ShlexQuotes
                           /\ c # state
                           /\ c # escapedstate
                        THEN Append(token, state) ELSE token
            IN  Lex(s, i + 1, escapedstate, escapedstate, Append(kept, c), quoted, parts)
        ELSE \* state = "a"
            IF c \in ShlexWhitespace
                THEN Lex(s, i + 1, " ", escapedstate, <<>>, FALSE,
                         Emit(parts, token, quoted))
            ELSE IF c \in ShlexQuotes
                THEN Lex(s, i + 1, c, escapedstate, token, quoted, parts)
            ELSE IF c = ShlexEscape
                THEN Lex(s, i + 1, c, "a", token, quoted, parts)
            ELSE Lex(s, i + 1, "a", escapedstate, Append(token, c), quoted, parts)

\* shlex.split with the parse error swallowed (except ValueError: parts = [])
shlex_split_lenient(s) ==
    LET r == Lex(s, 1, " ", " ", <<>>, FALSE, <<>>)
    IN  IF r.ok THEN r ELSE [ok |-> TRUE, error |-> "", parts |-> << >>]

shlex_split(s) == Lex(s, 1, " ", " ", <<>>, FALSE, <<>>)

-----------------------------------------------------------------------------
(* utils/command_guard.py *)

ALLOWED_COMMANDS ==
    { "awk", "bash", "bc", "cut", "ls", "pwd", "cat", "head", "tail", "grep",
      "find", "du", "df", "whoami", "ps", "top", "htop", "uptime", "free",
      "env", "printenv", "uname", "date", "sleep", "echo", "stat", "hyprctl",
      "./hypr_control.sh", "service", "rg", "systemctl", "journalctl",
      "docker", "git", "npm", "pip", "python", "node", "curl", "wget", "tar",
      "zip", "unzip", "kill", "lsblk", "mount", "umount", "ip", "hostname",
      "ss", "netstat", "ping", "playerctl", "[", "test" }

\* _DISALLOWED_TOKENS = {} : the substrings whose presence rejects a command
DISALLOWED_TOKENS == { }

\* the operator set with && forgotten
OperatorsWithoutAnd == { "|", "||", ";" }

\* the operator set with | forgotten
OperatorsWithoutPipe == { "||", "&&", ";" }

\* operators = {"|", "||", "&&", ";"}
operators == { "|", "||", "&&", ";" }

\* the characters looked for inside a token
OperatorChars == { "|", "&", ";" }

\* the binaries whose first argument may not be "/"
RootGuarded == { "ls", "cat", "find", "du", "rm", "cp", "mv" }

\* "sub in s" for a sequence of characters sub
ContainsText(s, sub) ==
    \E i \in 1..(Len(s) - Len(sub) + 1) : SubSeq(s, i, i + Len(sub) - 1) = sub

\* the glued-operator test looking for the pipe character only
GluedOperatorPipeOnly(token) ==
    /\ \E i \in 1..Len(token) : token[i] = "|"
    /\ Str(token) \notin { "|", "||", "&&", ";" }

\* any(op in token for op in ["|", "&", ";"]) and token not in operators
GluedOperator(token) ==
    /\ \E i \in 1..Len(token) : token[i] \in OperatorChars
    /\ Str(token) \notin operators

\* the first loop: the reason for the first glued token, or NoError
GluedCheck(parts) ==
    IF \E k \in 1..Len(parts) : GluedOperator(parts[k])
    THEN LET k == CHOOSE j \in 1..Len(parts) :
                      /\ GluedOperator(parts[j])
                      /\ \A h \in 1..(j - 1) : ~GluedOperator(parts[h])
         IN  "operator characters must be spaced out; got token " \o Repr(parts[k])
    ELSE NoError

\* the root guard with find left out
RootGuardWithoutFind(parts, idx) ==
    LET last_binary == Str(parts[idx]) IN
    IF /\ idx + 1 <= Len(parts)
       /\ last_binary \in { "ls", "cat", "du", "rm", "cp", "mv" }
       /\ parts[idx + 1] = <<"/">>
        THEN last_binary \o " / is not allowed for safety"
    ELSE NoError

\* the two guards applied to a segment's binary at parts[idx]
RootGuard(parts, idx) ==
    LET last_binary == Str(parts[idx]) IN
    IF /\ idx + 1 <= Len(parts)
       /\ last_binary \in RootGuarded
       /\ parts[idx + 1] = <<"/">>
        THEN last_binary \o " / is not allowed for safety"
    ELSE IF /\ last_binary = "find"
            /\ idx + 1 <= Len(parts)
            /\ parts[idx + 1] = <<"/">>
        THEN "find / is not allowed for safety"
    ELSE NoError

\* the second loop with need_binary left FALSE after an operator: only the
\* first token of the command is checked
RECURSIVE BinaryCheckFirstOnly(_, _, _)
BinaryCheckFirstOnly(parts, idx, need_binary) ==
    IF idx > Len(parts) THEN NoError
    ELSE IF Str(parts[idx]) \in { "|", "||", "&&", ";" }
        THEN BinaryCheckFirstOnly(parts, idx + 1, need_binary)
    ELSE IF need_binary THEN
        IF Str(parts[idx]) \notin ALLOWED_COMMANDS
            THEN "unknown binary " \o Repr(parts[idx])
                     \o "; only a curated safe list is allowed"
        ELSE BinaryCheckFirstOnly(parts, idx + 1, FALSE)
    ELSE BinaryCheckFirstOnly(parts, idx + 1, FALSE)

\* the second loop: the reason for the first offending segment, or NoError
RECURSIVE BinaryCheck(_, _, _)
BinaryCheck(parts, idx, need_binary) ==
    IF idx > Len(parts) THEN NoError
    ELSE IF Str(parts[idx]) \in operators
        THEN BinaryCheck(parts, idx + 1, TRUE)
    ELSE IF need_binary THEN
        IF Str(parts[idx]) \notin ALLOWED_COMMANDS
            THEN "unknown binary " \o Repr(parts[idx])
                     \o "; only a curated safe list is allowed"
        ELSE LET guard == RootGuard(parts, idx)
             IN  IF guard # NoError THEN guard
                 ELSE BinaryCheck(parts, idx + 1, FALSE)
    ELSE BinaryCheck(parts, idx + 1, FALSE)

\* the sudo test without the lower-casing
StartsWithSudoCaseSensitive(command) ==
    StartsWith(command, << "s", "u", "d", "o" >>)

\* lowered.startswith("sudo")
StartsWithSudo(command) ==
    /\ Len(command) >= 4
    /\ Lower(SubSeq(command, 1, 4)) = << "s", "u", "d", "o" >>

\* a rejection that returns None and leaves the error slot without a reason
RejectWithoutReason(reason) == [ret |-> None, error |-> NoError]

\* a rejection path: _last_sanitize_error = reason; return None
Reject(reason) == [ret |-> None, error |-> reason]

\* sanitize_command(command): the value returned and the value left in
\* _last_sanitize_error
sanitize_command(raw) ==
    LET command == Strip(raw)
        split   == shlex_split(command)
        parts   == split.parts
        glued   == GluedCheck(parts)
        unsafe  == BinaryCheck(parts, 1, TRUE)
    IN  IF command = <<>>
            THEN Reject("empty command")
        ELSE IF StartsWithSudo(command)
            THEN Reject("commands starting with sudo are not allowed")
        ELSE IF \E t \in DISALLOWED_TOKENS : ContainsText(command, t)
            THEN Reject("subshell or backtick constructs are not allowed")
        ELSE IF ~split.ok
            THEN Reject("invalid quoting or syntax: " \o split.error)
        ELSE IF parts = <<>>
            THEN Reject("no tokens after splitting command")
        ELSE IF glued # NoError
            THEN Reject(glued)
        ELSE IF unsafe # NoError
            THEN Reject(unsafe)
        ELSE [ret |-> command, error |-> NoError]

\* the grave accent character, which a TLA+ string cannot hold
Backquote == "<backquote>"

\* the direct detector returning the text within the quotes or fences as it
\* is, without sanitizing it
unwrap_unchecked_command(text, err0, direct) ==
    IF text = <<>> THEN [ret |-> None, error |-> err0]
    ELSE IF Contains(text, "\n") THEN [ret |-> None, error |-> err0]
    ELSE IF direct.ret # None THEN direct
    ELSE IF Head(text) = Backquote /\ text[Len(text)] = Backquote
        THEN [ret |-> SubSeq(text, 2, Len(text) - 1), error |-> direct.error]
    ELSE IF Head(text) = "\"" /\ text[Len(text)] = "\""
        THEN [ret |-> SubSeq(text, 2, Len(text) - 1), error |-> direct.error]
    ELSE [ret |-> None, error |-> direct.error]

\* the direct detector without its test for multi-line instructions
unwrap_multiline_command(text, err0, direct) ==
    IF text = <<>> THEN [ret |-> None, error |-> err0]
    ELSE IF direct.ret # None THEN direct
    ELSE IF Head(text) = Backquote /\ text[Len(text)] = Backquote
        THEN sanitize_command(SubSeq(text, 2, Len(text) - 1))
    ELSE IF Head(text) = "\"" /\ text[Len(text)] = "\""
        THEN sanitize_command(SubSeq(text, 2, Len(text) - 1))
    ELSE [ret |-> None, error |-> direct.error]

\* detect_direct_command once sanitize_command(text) has answered direct:
\* the literal command, or the one inside the wrapping quotes or fences
unwrap_direct_command(text, err0, direct) ==
    IF text = <<>> THEN [ret |-> None, error |-> err0]
    ELSE IF Contains(text, "\n") THEN [ret |-> None, error |-> err0]
    ELSE IF direct.ret # None THEN direct
    ELSE IF Head(text) = Backquote /\ text[Len(text)] = Backquote
        THEN sanitize_command(SubSeq(text, 2, Len(text) - 1))
    ELSE IF Head(text) = "\"" /\ text[Len(text)] = "\""
        THEN sanitize_command(SubSeq(text, 2, Len(text) - 1))
    ELSE [ret |-> None, error |-> direct.error]

\* detect_direct_command(instruction): the value returned and the value left
\* in _last_sanitize_error, which held err0 before the call
detect_direct_command(instruction, err0) ==
    unwrap_direct_command(Strip(instruction), err0,
                          sanitize_command(Strip(instruction)))

-----------------------------------------------------------------------------
(* services/ollama.py: the instruction translator *)

\* the outcome of chat() when the backend raises
ChatRaises == << "raise" >>

\* the replies the model may give (response.message.content)
Replies ==
    { <<"l", "s">>,
      <<"N", "o", "n", "e">>,
      <<"r", "m">>,
      <<"l", "s", " ", "\"", "x">>,
      <<"l", "s", ";", "r", "m">>,
      <<"c", "o", "m", "m", "a", "n", "d", ":", " ", "l", "s", "\n", "r", "m">> }

\* the number of occurrences of character c in s
RECURSIVE Count(_, _)
Count(s, c) ==
    IF s = <<>> THEN 0
    ELSE (IF Head(s) = c THEN 1 ELSE 0) + Count(Tail(s), c)

\* the text before the first character of s that belongs to seps (all of s
\* when there is none)
RECURSIVE Before(_, _)
Before(s, seps) ==
    IF s = <<>> \/ Head(s) \in seps THEN <<>>
    ELSE <<Head(s)>> \o Before(Tail(s), seps)

\* the text after the first character of s that belongs to seps
RECURSIVE After(_, _)
After(s, seps) ==
    IF s = <<>> THEN <<>>
    ELSE IF Head(s) \in seps THEN Tail(s)
    ELSE After(Tail(s), seps)

\* _maybe_fix_unclosed_quotes(command)
maybe_fix_unclosed_quotes(command) ==
    IF Count(command, "\"") % 2 = 1 THEN Append(command, "\"")
    ELSE IF Count(command, "'") % 2 = 1 THEN Append(command, "'")
    ELSE None

\* the model's reply after the label and first-line post-processing
PostProcess(content) ==
    LET c0 == Strip(content)
        c1 == IF StartsWith(Lower(c0), <<"c", "o", "m", "m", "a", "n", "d", ":">>)
              THEN Strip(After(c0, {":"})) ELSE c0
    IN  IF Contains(c1, "\n") THEN Strip(Before(c1, {"\n", "\r"})) ELSE c1

\* "No closing quotation" in sanitize_reason
IsUnclosedQuote(reason) ==
    reason = "invalid quoting or syntax: No closing quotation"

\* the translator's decision once each stage has answered: direct is the
\* result of detect_direct_command, sanitized of sanitize_command(command),
\* fixed_sanitized of the quote repair and fallback of the leading segment
translation_outcome(instruction, err0, reply, command, direct, sanitized, fixed, fixed_sanitized, leading, fallback) ==
    LET try_fix   == /\ IsUnclosedQuote(sanitized.error)
                     /\ fixed # None
                     /\ fixed # command
        \* _last_sanitize_error after the optional quote repair
        err_fix   == IF try_fix THEN fixed_sanitized.error ELSE sanitized.error
        try_lead  == leading # <<>> /\ leading # command
        err_lead  == IF try_lead THEN fallback.error ELSE err_fix
        Out(r, se, te, n) ==
            [ret |-> r, sanitize_error |-> se, translation_error |-> te, chats |-> n]
    IN  IF instruction = <<>>
            THEN Out(None, err0, "instruction was empty", 0)
        ELSE IF direct.ret # None
            THEN Out(direct.ret, direct.error, NoError, 0)
        ELSE IF reply = ChatRaises
            THEN Out(None, direct.error,
                     "exception during translation: backend error", 1)
        ELSE IF Upper(command) = <<"N", "O", "N", "E">>
            THEN Out(None, direct.error,
                     "model explicitly replied with NONE (no safe command)", 1)
        ELSE IF sanitized.ret # None
            THEN Out(sanitized.ret, sanitized.error, NoError, 1)
        ELSE IF try_fix /\ fixed_sanitized.ret # None
            THEN Out(fixed_sanitized.ret, fixed_sanitized.error, NoError, 1)
        ELSE IF try_lead /\ fallback.ret # None
            THEN Out(fallback.ret, fallback.error,
                     "original suggestion looked unsafe; using only the leading simple command segment",
                     1)
        ELSE Out(None, err_lead,
                 IF err_lead # NoError THEN err_lead
                 ELSE "sanitize_command rejected the suggested command as unsafe",
                 1)

\* the leading simple segment of a suggestion: re.split(r"[;&|]", command)[0]
leading_segment(command) == Strip(Before(command, {";", "&", "|"}))

\* translate_instruction_to_command(instruction) when chat() answers reply:
\* the value returned, the values left in the two error slots and the number
\* of chat requests issued.  err0 is _last_sanitize_error before the call.
translate_instruction_to_command(instruction0, err0, reply) ==
    translation_outcome(
        Strip(instruction0), err0, reply, PostProcess(reply),
        detect_direct_command(Strip(instruction0), err0),
        sanitize_command(PostProcess(reply)),
        maybe_fix_unclosed_quotes(PostProcess(reply)),
        sanitize_command(maybe_fix_unclosed_quotes(PostProcess(reply))),
        leading_segment(PostProcess(reply)),
        sanitize_command(leading_segment(PostProcess(reply))))

-----------------------------------------------------------------------------
(* services/ollama_translation.py: the translator the tool loop imports *)

\* the replies the model may give to this translator
TranslationReplies ==
    Replies \cup { <<"l", "s", " ", "\"", "\\", "\"", Backquote>> }

\* _maybe_fix_unclosed_quotes(command) of services/ollama_translation.py
ollama_translation_maybe_fix_unclosed_quotes(command0) ==
    LET command == Strip(command0)
    IN  IF command = << >> THEN None
        ELSE IF Count(command, "\"") % 2 = 1 THEN Append(command, "\"")
        ELSE IF Count(command, "'") % 2 = 1 THEN Append(command, "'")
        ELSE IF Count(command, Backquote) % 2 = 1 THEN Append(command, Backquote)
        ELSE None

\* the translator asking the model before it tries the direct detector
translate_without_direct_detection(instruction0, err0, reply) ==
    translation_outcome(
        Strip(instruction0), err0, reply, PostProcess(reply),
        [ret |-> None, error |-> err0],
        sanitize_command(PostProcess(reply)),
        ollama_translation_maybe_fix_unclosed_quotes(PostProcess(reply)),
        sanitize_command(ollama_translation_maybe_fix_unclosed_quotes(PostProcess(reply))),
        leading_segment(PostProcess(reply)),
        sanitize_command(leading_segment(PostProcess(reply))))

\* translate_instruction_to_command(instruction) of
\* services/ollama_translation.py when chat() answers reply: the value
\* returned, the values left in the two error slots and the number of chat
\* requests issued
ollama_translation_translate_instruction_to_command(instruction0, err0, reply) ==
    translation_outcome(
        Strip(instruction0), err0, reply, PostProcess(reply),
        detect_direct_command(Strip(instruction0), err0),
        sanitize_command(PostProcess(reply)),
        ollama_translation_maybe_fix_unclosed_quotes(PostProcess(reply)),
        sanitize_command(ollama_translation_maybe_fix_unclosed_quotes(PostProcess(reply))),
        leading_segment(PostProcess(reply)),
        sanitize_command(leading_segment(PostProcess(reply))))

-----------------------------------------------------------------------------
(* tools/agent.py: the execution engine *)

\* what subprocess.run(..., timeout=20) may do with a command
Outcomes ==
    { [kind |-> "completed", returncode |-> 0,
       stdout |-> <<"o", "k", "\n">>, stderr |-> <<>>],
      [kind |-> "completed", returncode |-> 0,
       stdout |-> <<>>, stderr |-> <<>>],
      [kind |-> "completed", returncode |-> 1,
       stdout |-> <<>>, stderr |-> <<"e", "r", "r", "\n">>],
      [kind |-> "timeout", returncode |-> 0, stdout |-> <<>>, stderr |-> <<>>],
      [kind |-> "exception", returncode |-> 0, stdout |-> <<>>, stderr |-> <<>>] }

\* ShellAgent._preprocess_prompt
preprocess_prompt(p) == Strip(p)

Entry(stage, value) == [stage |-> stage, value |-> value]

\* the translated command handed to the subprocess when there is one
SubprocessArgumentTranslated(sanitized_command, translated_command) ==
    IF translated_command # None THEN translated_command ELSE sanitized_command

\* the first argument of subprocess.run
SubprocessArgument(sanitized_command, translated_command) == sanitized_command

\* shell_agent from the subprocess call on: first is the result of
\* sanitize_command(preprocessed), translation of the translator and second
\* of sanitize_command(translated_command)
shell_agent_run(p, preprocessed, first, translation, second, outcome) ==
    LET sanitized_command == first.ret
        translated_command == translation.ret
        command_trace ==
            << Entry("prompt", p), Entry("preprocessed", preprocessed),
               Entry("sanitized", sanitized_command) >>
            \o (IF translated_command # None /\ second.ret # None
                THEN << Entry("translated", second.ret) >> ELSE << >>)
        Ran(code, out, err) ==
            [command |-> sanitized_command, exit_code |-> code, stdout |-> out,
             stderr |-> err, command_trace |-> command_trace]
    IN  IF sanitized_command = None THEN
            [result |-> [command |-> p, exit_code |-> -1, stdout |-> "",
                         stderr |-> "Command rejected as unsafe or invalid.",
                         command_trace |-> << Entry("prompt", p) >>],
             spawned |-> << >>,
             sanitize_error |-> first.error,
             translation_error |-> NoError,
             translated |-> FALSE,
             chats |-> 0]
        ELSE
            [result |->
                CASE outcome.kind = "completed" ->
                        Ran(outcome.returncode, Str(Strip(outcome.stdout)),
                            Str(Strip(outcome.stderr)))
                  [] outcome.kind = "timeout" ->
                        Ran(-1, "", "Command timed out after 20 seconds.")
                  [] OTHER ->
                        Ran(-1, "", "subprocess error"),
             spawned |-> << SubprocessArgument(sanitized_command, translated_command) >>,
             sanitize_error |-> second.error,
             translation_error |-> translation.translation_error,
             translated |-> TRUE,
             chats |-> translation.chats]

\* shell_agent once the translator has answered: the translated command is
\* sanitized in its turn
shell_agent_translated(p, preprocessed, first, translation, outcome) ==
    shell_agent_run(p, preprocessed, first, translation,
                    sanitize_command(IF translation.ret = None THEN <<>>
                                     ELSE translation.ret),
                    outcome)

\* shell_agent once the prompt has been sanitized: the translator is called
\* with the preprocessed prompt
shell_agent_sanitized(p, preprocessed, first, reply, outcome) ==
    shell_agent_translated(
        p, preprocessed, first,
        translate_instruction_to_command(preprocessed, first.error, reply),
        outcome)

\* ShellAgent.shell_agent(prompt) when the model would answer reply and the
\* subprocess would behave as outcome: the dictionary returned, the commands
\* spawned, the two error slots and the number of chat requests
shell_agent(p, err0, reply, outcome) ==
    shell_agent_sanitized(p, preprocess_prompt(p),
                          sanitize_command(preprocess_prompt(p)), reply, outcome)

-----------------------------------------------------------------------------
(* The state machine *)

\* the state a call starts in: both error slots are None, as at import, and
\* the caller holds the text it is about to pass, of at most n words
InitWith(n) ==
    /\ IsTextUpTo(prompt, n)
    /\ pc = "start"
    /\ ret = None
    /\ last_sanitize_error = NoError
    /\ last_translation_error = NoError
    /\ chats = 0
    /\ spawned = << >>
    /\ result = None
    /\ before = NoError
    /\ threads = << >>
    /\ frame = << >>

Init == InitWith(MaxWords)

\* the caller invokes sanitize_command(prompt)
SanitizeCommand ==
    /\ pc = "start"
    /\ LET r == sanitize_command(prompt)
       IN  /\ ret' = r.ret
           /\ last_sanitize_error' = r.error
    /\ pc' = "sanitized"
    /\ UNCHANGED <<prompt, last_translation_error, chats, spawned, result, before, threads, frame>>

\* the chat outcomes that matter to a call: all of them when the translator
\* reaches chat(), a single one when it returns before
ChatOutcomes(instruction, err0) ==
    IF translate_instruction_to_command(instruction, err0, ChatRaises).chats = 0
    THEN {ChatRaises}
    ELSE Replies \cup {ChatRaises}

\* the effect of a call of shell_agent that answers r
ShellAgentReturns(r) ==
    /\ result' = r.result
    /\ spawned' = spawned \o r.spawned
    /\ last_sanitize_error' = r.sanitize_error
    /\ last_translation_error' =
          IF r.translated THEN r.translation_error
          ELSE last_translation_error
    /\ chats' = chats + r.chats

\* the tool registry invokes shell_agent(prompt)
ShellAgent ==
    /\ pc = "start"
    /\ LET first == sanitize_command(preprocess_prompt(prompt))
       IN  \E outcome \in IF first.ret = None
                          THEN {CHOOSE o \in Outcomes : TRUE} ELSE Outcomes,
              reply \in IF first.ret = None THEN {ChatRaises}
                        ELSE ChatOutcomes(preprocess_prompt(prompt), first.error) :
              ShellAgentReturns(shell_agent(prompt, last_sanitize_error, reply, outcome))
    /\ pc' = "executed"
    /\ UNCHANGED <<prompt, ret, before, threads, frame>>

Next == SanitizeCommand

Spec == Init /\ [][Next]_vars

InitAgent == InitWith(MaxPromptWords)

NextAgent == ShellAgent

SpecAgent == InitAgent /\ [][NextAgent]_vars

-----------------------------------------------------------------------------
(* A sequence of sanitize_command calls by one caller *)

\* the longest command of a sequence of calls, in words of CallVocabulary
MaxCallWords == 2

\* the lexical pieces the commands of a sequence of calls are assembled from
CallVocabulary ==
    { <<"l", "s">>, <<"r", "m">>, <<" ">>, <<" ", "|">>, <<"\"">> }

\* no call has been made: the error slot is None, as at import
InitCalls ==
    /\ prompt = << >>
    /\ pc = "start"
    /\ ret = None
    /\ last_sanitize_error = NoError
    /\ last_translation_error = NoError
    /\ chats = 0
    /\ spawned = << >>
    /\ result = None
    /\ before = NoError
    /\ threads = << >>
    /\ frame = << >>

\* sanitize_command(prompt') runs from entry to return
Call ==
    /\ LET r == sanitize_command(prompt')
       IN  /\ ret' = r.ret
           /\ last_sanitize_error' = r.error
    /\ before' = last_sanitize_error
    /\ pc' = "sanitized"
    /\ UNCHANGED <<last_translation_error, chats, spawned, result, threads, frame>>

\* the caller invokes sanitize_command with a new text
SanitizeNext ==
    /\ IsTextOver(prompt', MaxCallWords, CallVocabulary)
    /\ Call

\* the caller invokes sanitize_command with the command the previous call
\* returned
SanitizeReturned ==
    /\ pc = "sanitized"
    /\ ret # None
    /\ prompt' = ret
    /\ Call

NextCalls == SanitizeNext \/ SanitizeReturned

SpecCalls == InitCalls /\ [][NextCalls]_vars

-----------------------------------------------------------------------------
(* A call of detect_direct_command *)

\* the longest instruction handed to detect_direct_command, in words of
\* DirectVocabulary
MaxDirectWords == 3

\* the lexical pieces those instructions are assembled from
DirectVocabulary ==
    { <<"l", "s">>, <<"r", "m">>, <<"l", "s", " ", "-", "l">>, <<" ">>,
      <<"\"">>, <<Backquote>>, <<"\n">> }

InitDirect ==
    /\ IsTextOver(prompt, MaxDirectWords, DirectVocabulary)
    /\ pc = "start"
    /\ ret = None
    /\ last_sanitize_error = NoError
    /\ last_translation_error = NoError
    /\ chats = 0
    /\ spawned = << >>
    /\ result = None
    /\ before = NoError
    /\ threads = << >>
    /\ frame = << >>

\* the caller invokes detect_direct_command(prompt)
DetectDirectCommand ==
    /\ pc = "start"
    /\ LET r == detect_direct_command(prompt, last_sanitize_error)
       IN  /\ ret' = r.ret
           /\ last_sanitize_error' = r.error
    /\ before' = last_sanitize_error
    /\ pc' = "detected"
    /\ UNCHANGED <<prompt, last_translation_error, chats, spawned, result, threads, frame>>

NextDirect == DetectDirectCommand

SpecDirect == InitDirect /\ [][NextDirect]_vars

-----------------------------------------------------------------------------
(* A call of translate_instruction_to_command (services/ollama_translation.py) *)

\* the longest instruction handed to the translator, in words of
\* InstructionVocabulary
MaxInstructionWords == 3

\* the lexical pieces instructions are assembled from
InstructionVocabulary ==
    { <<"l", "s">>, <<"r", "m">>, <<" ">>, <<"\"">> }

\* the error slots hold what earlier calls left: nothing, or a reason
InitTranslate ==
    /\ IsTextOver(prompt, MaxInstructionWords, InstructionVocabulary)
    /\ pc = "start"
    /\ ret = None
    /\ last_sanitize_error \in { NoError, "empty command" }
    /\ last_translation_error \in { NoError, "instruction was empty" }
    /\ chats = 0
    /\ spawned = << >>
    /\ result = None
    /\ before = NoError
    /\ threads = << >>
    /\ frame = << >>

\* the chat outcomes that matter to a call: all of them when the translator
\* reaches chat(), a single one when it returns before
TranslationChatOutcomes(instruction, err0) ==
    IF ollama_translation_translate_instruction_to_command(instruction, err0, ChatRaises).chats = 0
    THEN {ChatRaises}
    ELSE TranslationReplies \cup {ChatRaises}

\* the effect of a call of the translator that answers r
TranslateReturns(r) ==
    /\ ret' = r.ret
    /\ last_sanitize_error' = r.sanitize_error
    /\ last_translation_error' = r.translation_error
    /\ chats' = chats + r.chats

\* the caller invokes translate_instruction_to_command(prompt)
Translate ==
    /\ pc = "start"
    /\ \E reply \in TranslationChatOutcomes(prompt, last_sanitize_error) :
          TranslateReturns(ollama_translation_translate_instruction_to_command(
                               prompt, last_sanitize_error, reply))
    /\ before' = last_sanitize_error
    /\ pc' = "translated"
    /\ UNCHANGED <<prompt, spawned, result, threads, frame>>

NextTranslate == Translate

SpecTranslate == InitTranslate /\ [][NextTranslate]_vars

-----------------------------------------------------------------------------
(* Two worker threads in translate_instruction_to_command at once.  Both     *)
(* write and read the module globals _last_sanitize_error and               *)
(* _last_command_translation_error; a thread may be preempted between any   *)
(* two of the steps below.                                                  *)

\* the worker threads of the executor that run tool calls
Threads == { 1, 2 }

\* the instruction each thread translates: not a direct command
ThreadInstruction == << "r", "m" >>

\* the variables the threads do not touch
NotOfThreads == <<prompt, pc, ret, chats, spawned, result, before, frame>>

InitThreads ==
    /\ prompt = ThreadInstruction
    /\ pc = "start"
    /\ ret = None
    /\ last_sanitize_error = NoError
    /\ last_translation_error = NoError
    /\ chats = 0
    /\ spawned = << >>
    /\ result = None
    /\ before = NoError
    /\ threads = [t \in Threads |->
                    [pc |-> "start", reply |-> ChatRaises, ret |-> None,
                     reported |-> NoError]]
    /\ frame = << >>

\* lines 58-80: the translation error slot is cleared, the direct detector
\* rejects the instruction (leaving its reason) and chat() answers
ThreadBegin(t) ==
    /\ threads[t].pc = "start"
    /\ \E reply \in TranslationReplies \cup {ChatRaises} :
          threads' = [threads EXCEPT ![t].pc = "replied", ![t].reply = reply]
    /\ last_translation_error' = NoError
    /\ last_sanitize_error' =
          detect_direct_command(ThreadInstruction, last_sanitize_error).error
    /\ UNCHANGED NotOfThreads

\* the thread returns r.ret, leaving r's reasons in the two slots
ThreadReturns(t, r) ==
    /\ threads' = [threads EXCEPT ![t].pc = "returned", ![t].ret = r.ret]
    /\ last_sanitize_error' = r.sanitize_error
    /\ last_translation_error' = r.translation_error

\* lines 80-101 once sanitize_command(command) has answered sanitized: the
\* thread returns when chat() raised, when the reply is NONE or when the
\* reply is accepted; otherwise the reason is in the slot and the thread is
\* about to read it back
ThreadSanitized(t, command, sanitized) ==
    IF \/ threads[t].reply = ChatRaises
       \/ Upper(command) = <<"N", "O", "N", "E">>
       \/ sanitized.ret # None
    THEN ThreadReturns(t, ollama_translation_translate_instruction_to_command(
                              ThreadInstruction, last_sanitize_error, threads[t].reply))
    ELSE /\ threads' = [threads EXCEPT ![t].pc = "rejected"]
         /\ last_sanitize_error' = sanitized.error
         /\ UNCHANGED last_translation_error

ThreadSanitize(t) ==
    /\ threads[t].pc = "replied"
    /\ ThreadSanitized(t, PostProcess(threads[t].reply),
                       sanitize_command(PostProcess(threads[t].reply)))
    /\ UNCHANGED NotOfThreads

\* lines 103-140: get_last_sanitize_error() is read back and decides on the
\* quote repair, the narrowing and the reason reported
ThreadReadBack(t) ==
    /\ threads[t].pc = "rejected"
    /\ ThreadReturns(t, translation_outcome(
          ThreadInstruction, last_sanitize_error, threads[t].reply,
          PostProcess(threads[t].reply),
          [ret |-> None, error |-> last_sanitize_error],
          [ret |-> None, error |-> last_sanitize_error],
          ollama_translation_maybe_fix_unclosed_quotes(PostProcess(threads[t].reply)),
          sanitize_command(ollama_translation_maybe_fix_unclosed_quotes(
                               PostProcess(threads[t].reply))),
          leading_segment(PostProcess(threads[t].reply)),
          sanitize_command(leading_segment(PostProcess(threads[t].reply)))))
    /\ UNCHANGED NotOfThreads

\* the caller of the translator reads get_last_command_translation_error()
ThreadReport(t) ==
    /\ threads[t].pc = "returned"
    /\ threads' = [threads EXCEPT ![t].pc = "done",
                                  ![t].reported = last_translation_error]
    /\ UNCHANGED <<last_sanitize_error, last_translation_error>>
    /\ UNCHANGED NotOfThreads

NextThreads ==
    \E t \in Threads :
        \/ ThreadBegin(t)
        \/ ThreadSanitize(t)
        \/ ThreadReadBack(t)
        \/ ThreadReport(t)

SpecThreads == InitThreads /\ [][NextThreads]_vars

-----------------------------------------------------------------------------
(* Vocabulary of the properties *)

\* the bare operator tokens that separate the segments of a command
BareOperators == { "|", "||", "&&", ";" }

IsOperatorWord(t) == Str(t) \in BareOperators

\* parts[k] is the first token of a segment
SegmentStart(parts, k) ==
    /\ ~IsOperatorWord(parts[k])
    /\ k = 1 \/ IsOperatorWord(parts[k - 1])

\* token t holds an operator character without being a bare operator
Glued(t) ==
    /\ \E i \in 1..Len(t) : t[i] \in { "|", "&", ";" }
    /\ ~IsOperatorWord(t)

\* the binary at parts[k] is followed by the argument "/"
RootArgument(parts, k) == k + 1 <= Len(parts) /\ parts[k + 1] = << "/" >>

\* where a scan of the quoting of s ends: "plain", inside single quotes
\* ("sq"), inside double quotes ("dq") or right after a backslash ("esc")
RECURSIVE QuoteScan(_, _)
QuoteScan(s, st) ==
    IF s = <<>> THEN (IF st = "dqesc" THEN "esc" ELSE st)
    ELSE LET c == Head(s)
             nxt == CASE st = "plain" ->
                            (IF c = "\\" THEN "esc"
                             ELSE IF c = "'" THEN "sq"
                             ELSE IF c = "\"" THEN "dq" ELSE "plain")
                      [] st = "esc" -> "plain"
                      [] st = "sq" -> (IF c = "'" THEN "plain" ELSE "sq")
                      [] st = "dq" ->
                            (IF c = "\"" THEN "plain"
                             ELSE IF c = "\\" THEN "dqesc" ELSE "dq")
                      [] OTHER -> "dq"
         IN  QuoteScan(Tail(s), nxt)

\* the quoting of s does not tokenise
QuotingBroken(s) == QuoteScan(s, "plain") # "plain"

\* the trimmed text starts with "sudo" in some letter case
SudoFirst(text) ==
    LET trimmed == Strip(text) IN
    /\ Len(trimmed) >= 4
    /\ \A i \in 1..4 :
          trimmed[i] \in { << "s", "u", "d", "o" >>[i], << "S", "U", "D", "O" >>[i] }

Sanitized == pc = "sanitized"
Accepted == pc = "sanitized" /\ ret # None
Rejected == pc = "sanitized" /\ ret = None

-----------------------------------------------------------------------------
(* Properties of sanitize_command, checked under Spec *)

\* C1: a command one of whose segments starts with a token outside the
\* allow-list is rejected: no accepted command tokenises into a segment that
\* starts outside the allow-list.
C1_UnknownBinaryRejected ==
    Accepted =>
        LET split == shlex_split(prompt) IN
        ~ /\ split.ok
          /\ \E k \in 1..Len(split.parts) :
                /\ SegmentStart(split.parts, k)
                /\ Str(split.parts[k]) \notin ALLOWED_COMMANDS

\* C1 witness: a command whose first segment starts with an allow-listed
\* binary and whose later segment does not has been rejected for that binary.
C1_Witness ==
    /\ Rejected
    /\ LET split == shlex_split(prompt) IN
       /\ split.ok
       /\ Len(split.parts) >= 3
       /\ Str(split.parts[1]) \in ALLOWED_COMMANDS
       /\ \E k \in 2..Len(split.parts) :
             /\ SegmentStart(split.parts, k)
             /\ Str(split.parts[k]) \notin ALLOWED_COMMANDS
             /\ last_sanitize_error =
                   "unknown binary " \o Repr(split.parts[k])
                       \o "; only a curated safe list is allowed"

\* C2 (as claimed): an accepted command is a single line, it holds no
\* newline character.
C2_AcceptedIsSingleLine ==
    Accepted => ~Contains(ret, "\n")

\* C4: a command whose trimmed text starts with "sudo" in any letter case is
\* rejected, and the reason retained is the sudo rule's.
C4_SudoRejected ==
    (Sanitized /\ SudoFirst(prompt))
    => /\ ret = None
       /\ last_sanitize_error = "commands starting with sudo are not allowed"

\* C4 witness: a command starting with sudo in mixed case, after leading
\* white space, has been rejected.
C4_Witness ==
    /\ Rejected
    /\ prompt # << >>
    /\ Head(prompt) = " "
    /\ StartsWith(Strip(prompt), << "S", "u", "D", "o", " " >>)
    /\ last_sanitize_error = "commands starting with sudo are not allowed"

\* C5 (as claimed): a command that holds a "$(" substitution is rejected.
C5_SubshellRejected ==
    (Sanitized /\ ContainsText(prompt, << "$", "(" >>)) => ret = None

\* the text holds one of the characters operators are made of
HasOperatorChar(text) == \E i \in 1..Len(text) : text[i] \in { "|", "&", ";" }

\* a chain: operators that stand alone, each between two segments, every
\* segment starting with an allow-listed binary
WellFormedChain(parts) ==
    /\ \E k \in 1..Len(parts) : IsOperatorWord(parts[k])
    /\ \A k \in 1..Len(parts) : ~Glued(parts[k])
    /\ ~IsOperatorWord(parts[1])
    /\ ~IsOperatorWord(parts[Len(parts)])
    /\ \A k \in 2..Len(parts) :
          ~(IsOperatorWord(parts[k - 1]) /\ IsOperatorWord(parts[k]))
    /\ \A k \in 1..Len(parts) :
          SegmentStart(parts, k) => Str(parts[k]) \in ALLOWED_COMMANDS

LsPipeLs == << "l", "s", " ", "|", " ", "l", "s" >>

C8_GluedOperatorRejected ==
    Accepted =>
        LET split == shlex_split(prompt) IN
        ~ (split.ok /\ \E k \in 1..Len(split.parts) : Glued(split.parts[k]))

\* C8 witness: an allow-listed binary followed by an argument with a glued
\* operator has been rejected for that token.
C8_Witness ==
    /\ Rejected
    /\ LET split == shlex_split(prompt) IN
       /\ split.ok
       /\ Len(split.parts) = 2
       /\ Str(split.parts[1]) \in ALLOWED_COMMANDS
       /\ Glued(split.parts[2])
       /\ last_sanitize_error =
             "operator characters must be spaced out; got token "
                 \o Repr(split.parts[2])

\* C9: a command in which a segment's binary is rm, cp, mv or find and the
\* next token is exactly "/" is rejected: no accepted command has such a
\* segment.
C9_RootPathRejected ==
    Accepted =>
        LET split == shlex_split(prompt) IN
        ~ /\ split.ok
          /\ \E k \in 1..Len(split.parts) :
                /\ SegmentStart(split.parts, k)
                /\ Str(split.parts[k]) \in { "rm", "cp", "mv", "find" }
                /\ RootArgument(split.parts, k)

\* C9 witness: "find /" in the second segment of a pipeline of allow-listed
\* binaries has been rejected by the root guard.
C9_Witness ==
    /\ Rejected
    /\ last_sanitize_error = "find / is not allowed for safety"
    /\ LET split == shlex_split(prompt) IN
       /\ Len(split.parts) = 4
       /\ Str(split.parts[1]) = "ls"
       /\ IsOperatorWord(split.parts[2])
       /\ Str(split.parts[3]) = "find"

\* C10 (as claimed): a command whose quoting does not tokenise is rejected
\* and the reason retained names the quoting error.
C10_BrokenQuotingReason ==
    (Sanitized /\ QuotingBroken(prompt))
    => /\ ret = None
       /\ last_sanitize_error \in
             { "invalid quoting or syntax: No closing quotation",
               "invalid quoting or syntax: No escaped character" }

\* C10 (amended): a command whose quoting does not tokenise is rejected, and
\* the reason retained names the quoting error of the trimmed command (a
\* quote left open, or a backslash left at its end) unless the trimmed command
\* starts with sudo, which is rejected first with the sudo reason.
C10_BrokenQuotingReasonUnlessSudo ==
    (Sanitized /\ QuotingBroken(prompt))
    => /\ ret = None
       /\ last_sanitize_error =
             IF SudoFirst(prompt)
                 THEN "commands starting with sudo are not allowed"
             ELSE IF QuoteScan(Strip(prompt), "plain") = "esc"
                 THEN "invalid quoting or syntax: No escaped character"
             ELSE "invalid quoting or syntax: No closing quotation"

\* C10 witness: an allow-listed command with an unterminated double quote has
\* been rejected with the quoting reason.
C10_Witness ==
    /\ Rejected
    /\ StartsWith(prompt, << "l", "s", " ", "\"" >>)
    /\ QuoteScan(prompt, "plain") = "dq"
    /\ last_sanitize_error = "invalid quoting or syntax: No closing quotation"

-----------------------------------------------------------------------------
(* Properties of shell_agent, checked under SpecAgent *)

\* C3: a subprocess is spawned only with the string sanitize_command returns
\* for the prompt; when the prompt is rejected nothing is spawned and the
\* result is exit code -1, empty stdout, the rejection message and the
\* original prompt as command.
C3_OnlySanitizedSpawned ==
    pc = "executed" =>
        LET checked == sanitize_command(prompt).ret IN
        /\ \A i \in 1..Len(spawned) : checked # None /\ spawned[i] = checked
        /\ checked = None =>
              /\ spawned = << >>
              /\ result.exit_code = -1
              /\ result.stdout = ""
              /\ result.stderr = "Command rejected as unsafe or invalid."
              /\ result.command = prompt

\* C3 witness: a prompt with surrounding white space has been rejected
\* without a subprocess, and the result carries the prompt as it was given.
C3_Witness ==
    /\ pc = "executed"
    /\ spawned = << >>
    /\ result.exit_code = -1
    /\ prompt # Strip(prompt)
    /\ Strip(prompt) # << >>
    /\ result.command = prompt

-----------------------------------------------------------------------------
(* Properties of sequences of sanitize_command calls, checked under SpecCalls *)

\* reason is a reason for which the text is to be rejected
ReasonFor(text, reason) ==
    LET trimmed == Strip(text)
        split   == shlex_split(trimmed)
        parts   == split.parts
    IN  \/ trimmed = << >> /\ reason = "empty command"
        \/ SudoFirst(text) /\ reason = "commands starting with sudo are not allowed"
        \/ /\ QuoteScan(trimmed, "plain") \in { "sq", "dq" }
           /\ reason = "invalid quoting or syntax: No closing quotation"
        \/ /\ QuoteScan(trimmed, "plain") = "esc"
           /\ reason = "invalid quoting or syntax: No escaped character"
        \/ /\ split.ok
           /\ \E k \in 1..Len(parts) :
                 \/ /\ Glued(parts[k])
                    /\ reason = "operator characters must be spaced out; got token "
                                    \o Repr(parts[k])
                 \/ /\ SegmentStart(parts, k)
                    /\ Str(parts[k]) \notin ALLOWED_COMMANDS
                    /\ reason = "unknown binary " \o Repr(parts[k])
                                    \o "; only a curated safe list is allowed"
                 \/ /\ SegmentStart(parts, k)
                    /\ RootArgument(parts, k)
                    /\ reason = Str(parts[k]) \o " / is not allowed for safety"

\* C11: after any sequence of sanitize_command calls the error slot is None
\* if the most recent call accepted its input, and otherwise holds a non-empty
\* reason for which that call's input is to be rejected.
C11_SlotTellsLatestCall ==
    Sanitized =>
        IF ret # None THEN last_sanitize_error = NoError
        ELSE /\ last_sanitize_error # NoError
             /\ last_sanitize_error # ""
             /\ ReasonFor(prompt, last_sanitize_error)

\* C11 witness: a call has rejected its input for a reason that differs from
\* the one the previous call left, and that reason does not apply to this
\* input.
C11_Witness ==
    /\ Rejected
    /\ before # NoError
    /\ before # last_sanitize_error
    /\ ~ReasonFor(prompt, before)
    /\ ReasonFor(prompt, last_sanitize_error)

\* C13: sanitisation is idempotent: when sanitize_command is called with the
\* command its previous call returned, it returns that command again.
C13_Idempotent ==
    [][(ret # None /\ prompt' = ret) => ret' = ret]_vars

\* C13 witness: after a call that left no reason, a call on a command of two
\* characters or more has accepted it and returned it unchanged.
C13_Witness ==
    /\ Accepted
    /\ prompt = ret
    /\ before = NoError
    /\ last_sanitize_error = NoError
    /\ Len(prompt) >= 2

-----------------------------------------------------------------------------
(* Properties of detect_direct_command, checked under SpecDirect *)

\* text of two characters or more starts and ends with the character q
Wrapped(text, q) == Len(text) >= 2 /\ Head(text) = q /\ text[Len(text)] = q

\* the command "ls -l"
LsL == << "l", "s", " ", "-", "l" >>

\* C14: detect_direct_command returns nothing when the trimmed text is empty
\* or holds a newline; otherwise what sanitize_command returns for the trimmed
\* text when it accepts it, else what it returns for the text without its
\* surrounding pair of backticks or double quotes when it has one, else
\* nothing.  So "ls -l" yields "ls -l" as it is and within double quotes, and
\* "ls -l" after a single double quote yields nothing.
C14_DirectDetection ==
    pc = "detected" =>
        LET t == Strip(prompt) IN
        /\ ret = IF t = << >> \/ Contains(t, "\n") THEN None
                 ELSE IF sanitize_command(t).ret # None THEN sanitize_command(t).ret
                 ELSE IF Wrapped(t, Backquote) \/ Wrapped(t, "\"")
                     THEN sanitize_command(SubSeq(t, 2, Len(t) - 1)).ret
                 ELSE None
        /\ t = LsL => ret = LsL
        /\ t = << "\"" >> \o LsL \o << "\"" >> => ret = LsL
        /\ t = << "\"" >> \o LsL => ret = None

\* C14 witness: an allow-listed command within double quotes has been
\* detected as the command without the quotes.
C14_Witness ==
    /\ pc = "detected"
    /\ prompt = << "\"" >> \o LsL \o << "\"" >>
    /\ ret = LsL

-----------------------------------------------------------------------------
(* Properties of translate_instruction_to_command, checked under SpecTranslate *)

\* the reason the translator leaves when it narrows a reply
NarrowingNote ==
    "original suggestion looked unsafe; using only the leading simple command segment"

\* C15: every command the translator returns, from direct detection, from the
\* model's reply, from the quote repair or from the narrowing to the leading
\* segment, is a string sanitize_command accepts and returns unchanged.
C15_TranslatedIsSanitized ==
    (pc = "translated" /\ ret # None) => sanitize_command(ret).ret = ret

\* C15 witness: the translator has returned the leading segment of a reply
\* the sanitizer rejected as a whole.
C15_Witness ==
    /\ pc = "translated"
    /\ ret = << "l", "s" >>
    /\ chats = 1
    /\ last_translation_error = NarrowingNote

\* C16: when detect_direct_command accepts the trimmed instruction, the
\* translator returns that command and issues no chat request.
C16_DirectBypassesChat ==
    pc = "translated" =>
        LET direct == detect_direct_command(Strip(prompt), before).ret IN
        direct # None => (ret = direct /\ chats = 0)

\* C16 witness: an instruction that is a literal command within surrounding
\* white space has been returned trimmed, without a chat request.
C16_Witness ==
    /\ pc = "translated"
    /\ ret # None
    /\ ret # prompt
    /\ ret = Strip(prompt)
    /\ chats = 0

\* C17 (as claimed): after the translator returns, the translation error slot
\* is None exactly when a command was returned.
C17_ErrorClearedIffCommand ==
    pc = "translated" => (last_translation_error = NoError <=> ret # None)

-----------------------------------------------------------------------------
(* Properties of concurrent translations, checked under SpecThreads *)

\* what a thread's translation returns and reports when it runs alone
Alone(t) ==
    ollama_translation_translate_instruction_to_command(
        ThreadInstruction, NoError, threads[t].reply)

\* C12 (as claimed): the error slots are per-thread: the command a thread's
\* translation returns, which rests on the reason it reads back after its own
\* sanitize_command call, and the reason it reports afterwards are those of
\* its own call, whatever the other thread does meanwhile.
C12_SlotsArePerThread ==
    \A t \in Threads :
        /\ threads[t].pc \in { "returned", "done" } => threads[t].ret = Alone(t).ret
        /\ threads[t].pc = "done" => threads[t].reported = Alone(t).translation_error


-----------------------------------------------------------------------------
(* call_tool_with_tldr for shell_agent, in services/ollama.py and in
   services/ollama_tools.py: the retry loop around the executor
   (tool_callable) and the translator (translate_instruction_to_command).
   frame holds the locals of one call; frame.variant tells which of the two
   modules the call runs in.  The executor and the translator are the
   caller's and the model's: each call of either returns any value of a small
   set. *)

Variants == { "ollama", "ollama_tools" }

\* max_attempts of services/ollama.py
ollama_max_attempts == 4

\* max_attempts of services/ollama_tools.py
ollama_tools_max_attempts == 3

max_attempts(variant) ==
    IF variant = "ollama" THEN ollama_max_attempts ELSE ollama_tools_max_attempts

\* a loop test that lets one more attempt through
while_attempt_up_to_max(variant, attempt) == attempt <= max_attempts(variant)

\* while attempt < max_attempts
while_attempt(variant, attempt) == attempt < max_attempts(variant)

\* the stderr fragments that mark a failure of a command that exited with 0
ErrorMarkers ==
    { << "u", "n", "k", "n", "o", "w", "n", " ", "o", "p", "t", "i", "o", "n" >>,
      << "u", "n", "r", "e", "c", "o", "g", "n", "i", "z", "e", "d", " ", "o", "p", "t", "i", "o", "n" >>,
      << "i", "n", "v", "a", "l", "i", "d", " ", "o", "p", "t", "i", "o", "n" >>,
      << "c", "o", "m", "m", "a", "n", "d", " ", "n", "o", "t", " ", "f", "o", "u", "n", "d" >>,
      << "p", "e", "r", "m", "i", "s", "s", "i", "o", "n", " ", "d", "e", "n", "i", "e", "d" >>,
      << "n", "o", " ", "s", "u", "c", "h", " ", "f", "i", "l", "e", " ", "o", "r", " ", "d", "i", "r", "e", "c", "t", "o", "r", "y" >>,
      << "c", "a", "n", "n", "o", "t", " ", "a", "c", "c", "e", "s", "s" >>,
      << "n", "o", "t", " ", "f", "o", "u", "n", "d" >>,
      << "f", "a", "i", "l", "e", "d" >>,
      << "e", "r", "r", "o", "r" >> }

\* a dictionary the executor returns
Output(command, exit_code, stdout, stderr) ==
    [is_dict |-> TRUE, command |-> command, exit_code |-> exit_code,
     stdout |-> stdout, stderr |-> stderr]

\* a value the executor returns that is no dictionary (and last_output
\* before the first attempt)
NotADict ==
    [is_dict |-> FALSE, command |-> None, exit_code |-> 0,
     stdout |-> << >>, stderr |-> << >>]

\* a classification that takes exit code 0 without a failure marker for a
\* success, whatever was printed
has_error_unless_silent(output) ==
    LET stderr == Strip(output.stderr) IN
    \/ output.exit_code # 0
    \/ stderr # << >> /\ \E marker \in ErrorMarkers : ContainsText(Lower(stderr), marker)

\* has_error once the loop has looked at exit_code, stderr and stdout of a
\* dictionary (the exit_code == 1 case of ollama_tools.py is within
\* exit_code not in (0, None))
has_error(output) ==
    LET exit_code == output.exit_code
        stderr    == Strip(output.stderr)
        stdout    == Strip(output.stdout)
        by_code   == exit_code # 0
        by_marker == /\ ~by_code
                     /\ stderr # << >>
                     /\ \E marker \in ErrorMarkers : ContainsText(Lower(stderr), marker)
        by_silence == ~by_code /\ ~by_marker /\ exit_code = 0 /\ Strip(stdout) = << >>
    IN  by_code \/ by_marker \/ by_silence

\* the commands the translator answers with
OrchestratorCommands ==
    { << "l", "s" >>,
      << "d", "u", " ", "-", "a" >>,
      << "d", "u", " ", " ", "-", "a" >> }

\* the prompts call_tool_with_tldr is called with
OrchestratorPrompts == { << "l", "s" >>, << >>, << "'", "l", "s" >> }

\* what translate_instruction_to_command returns: a command or None
TranslatorReturns == OrchestratorCommands \cup { None }

\* what the executor returns for a prompt: output, no output, a non-zero
\* exit code, a complaint on stderr with exit code 0, or no dictionary
ExecutorOutputs(command) ==
    { Output(command, 0, << "o", "k" >>, << >>),
      Output(command, 0, << >>, << >>),
      Output(command, 1, << >>, << "b", "a", "d" >>),
      Output(command, 0, << "o", "k" >>, << "N", "o", "t", " ", "f", "o", "u", "n", "d" >>),
      NotADict }

\* what fetch_cheat does: returns a reference text, returns a text starting
\* with "Error", or raises
CheatOutcomes == { "text", "Error", "raises" }

\* the call starts, for shell_agent with an empty history and tldr_separate
\* left False: working_arguments = dict(arguments), attempt = 0,
\* last_output = None; nothing was asked or executed yet
InitOrchestrator ==
    /\ prompt = << >>
    /\ pc = "start"
    /\ ret = None
    /\ last_sanitize_error = NoError
    /\ last_translation_error = NoError
    /\ chats = 0
    /\ spawned = << >>
    /\ result = None
    /\ before = NoError
    /\ threads = << >>
    /\ \E variant \in Variants : \E original \in OrchestratorPrompts :
        frame = [variant |-> variant, pc |-> "loop", attempt |-> 0,
                 original |-> original, prompt |-> original,
                 last_output |-> NotADict, raw_output |-> NotADict,
                 calls |-> << >>, outputs |-> << >>, asked |-> << >>,
                 suggested |-> << >>, cheats |-> << >>,
                 rechecked |-> FALSE, expected |-> None,
                 text |-> << >>, history |-> << >>,
                 returned |-> << >>, summaries |-> 0]

NotOfOrchestrator ==
    UNCHANGED <<prompt, pc, ret, last_sanitize_error, last_translation_error,
                chats, spawned, result, before, threads>>

\* where the loop goes after `continue`: the while test passes or fails
continue_pc(variant, attempt) ==
    IF while_attempt(variant, attempt) THEN "loop" ELSE "done"

\* one attempt: attempt += 1, the executor runs working_arguments, and the
\* result is classified; the loop breaks on a non-dictionary or a success
Execute ==
    /\ frame.pc = "loop"
    /\ \E output \in ExecutorOutputs(frame.prompt) :
        frame' = [frame EXCEPT
                    !.attempt = @ + 1,
                    !.last_output = output,
                    !.calls = Append(@, frame.prompt),
                    !.outputs = Append(@, output),
                    !.pc = IF output.is_dict /\ has_error(output)
                               THEN "failed" ELSE "done"]
    /\ NotOfOrchestrator

\* a refinement that leaves working_arguments["prompt"] as it was
refined_without_assignment(f, new_command) ==
    IF new_command # None
        THEN [f EXCEPT !.suggested = Append(@, new_command),
                       !.pc = continue_pc(f.variant, f.attempt)]
    ELSE [f EXCEPT !.suggested = Append(@, new_command),
                   !.pc = IF f.variant = "ollama" THEN "done" ELSE "cheat"]

\* the locals after the translator answered new_command to the request the
\* frame recorded in asked
refined(f, new_command) ==
    IF new_command # None
        THEN [f EXCEPT !.suggested = Append(@, new_command),
                       !.prompt = new_command,
                       !.pc = continue_pc(f.variant, f.attempt)]
    ELSE [f EXCEPT !.suggested = Append(@, new_command),
                   !.pc = IF f.variant = "ollama" THEN "done" ELSE "cheat"]

\* after a failed attempt the translator is asked for an alternative to the
\* failed command for the task working_arguments["prompt"]
Refine ==
    /\ frame.pc = "failed"
    /\ \E new_command \in TranslatorReturns :
        frame' = refined([frame EXCEPT !.asked = Append(@,
                              [failed |-> frame.last_output.command,
                               task |-> frame.prompt])],
                         new_command)
    /\ NotOfOrchestrator

\* shlex.split(original_prompt.strip())[0], None when the text is empty or
\* the split raises
primary_binary(original_prompt) ==
    LET text  == Strip(original_prompt)
        split == shlex_split(text)
    IN  IF text # << >> /\ split.ok /\ split.parts # << >>
            THEN split.parts[1]
        ELSE None

\* ollama_tools.py only: the translator gave nothing, so the cheat sheet of
\* the primary binary is fetched and the translator is asked once more with
\* it; without a usable sheet or a new command the loop breaks
Cheat ==
    /\ frame.pc = "cheat"
    /\ LET primary == primary_binary(frame.prompt) IN
       IF primary = None \/ primary = << >>
           THEN frame' = [frame EXCEPT !.pc = "done"]
       ELSE \E cheat \in CheatOutcomes :
           LET fetched == [frame EXCEPT !.cheats = Append(@, primary)] IN
           IF cheat # "text"
               THEN frame' = [fetched EXCEPT !.pc = "done"]
           ELSE \E new_command \in TranslatorReturns :
               frame' = IF new_command # None
                            THEN refined(fetched, new_command)
                        ELSE [fetched EXCEPT
                                !.suggested = Append(@, new_command),
                                !.pc = "done"]
    /\ NotOfOrchestrator

\* " ".join(s.split()) of a stripped text: each run of white space becomes
\* one blank
RECURSIVE JoinSplit(_)
JoinSplit(s) ==
    IF s = << >> THEN << >>
    ELSE IF Head(s) \in StripChars
        THEN IF Tail(s) # << >> /\ Head(Tail(s)) \in StripChars
                 THEN JoinSplit(Tail(s))
             ELSE << " " >> \o JoinSplit(Tail(s))
    ELSE << Head(s) >> \o JoinSplit(Tail(s))

\* a normalisation that keeps the white space between the words
norm_keeping_spaces(cmd) == Lower(Strip(cmd))

\* _norm(cmd)
norm(cmd) == JoinSplit(Lower(Strip(cmd)))

ComplianceFailure ==
    << "LLM compliance check failed: Command does not match user intent." >>

\* a compliance check that compares the two commands as they are
raw_output_compared_raw(last_output, final_command, llm_expected_command) ==
    IF llm_expected_command # None /\ final_command # llm_expected_command
        THEN Output(final_command, -2, << >>, ComplianceFailure)
    ELSE last_output

\* raw_output of ollama_tools.py once the original prompt was translated
\* again
raw_output_checked(last_output, final_command, llm_expected_command) ==
    IF llm_expected_command # None /\ norm(final_command) # norm(llm_expected_command)
        THEN Output(final_command, -2, << >>, ComplianceFailure)
    ELSE last_output

\* final_command of the compliance check
final_command_of(last_output) ==
    IF last_output.is_dict THEN last_output.command ELSE None

\* the digits of a natural number, and str() of an int
Digit == << "0", "1", "2", "3", "4", "5", "6", "7", "8", "9" >>

RECURSIVE NatChars(_)
NatChars(n) ==
    IF n < 10 THEN << Digit[n + 1] >>
    ELSE NatChars(n \div 10) \o << Digit[(n % 10) + 1] >>

IntChars(n) == IF n < 0 THEN << "-" >> \o NatChars(0 - n) ELSE NatChars(n)

\* "\n".join(lines)
RECURSIVE JoinLines(_)
JoinLines(lines) ==
    IF lines = << >> THEN << >>
    ELSE IF Len(lines) = 1 THEN lines[1]
    ELSE lines[1] \o << "\n" >> \o JoinLines(Tail(lines))

\* the length beyond which the formatters cut stdout
STDOUT_LIMIT == 16000

MAX_TOOL_OUTPUT_IN_HISTORY == 1000

\* "\n... (output truncated)"
OutputTruncated == << "\n", ".", ".", ".", " ", "(", "o", "u", "t", "p", "u", "t", " ", "t", "r", "u", "n", "c", "a", "t", "e", "d", ")" >>

\* a cut that leaves no marker
truncated_without_marker(stdout) ==
    IF Len(stdout) > STDOUT_LIMIT THEN SubSeq(stdout, 1, STDOUT_LIMIT) ELSE stdout

\* stdout[:16000] + "\n... (output truncated)" when stdout is longer
truncated_stdout(stdout) ==
    IF Len(stdout) > STDOUT_LIMIT
        THEN SubSeq(stdout, 1, STDOUT_LIMIT) \o OutputTruncated
    ELSE stdout

\* the str the executor returns when it returns no dictionary
NotADictText == << "n", "o" >>

\* _format_tool_output("shell_agent", raw_output) of services/ollama.py
ollama_format_tool_output(raw_output) ==
    IF ~raw_output.is_dict
        THEN IF Strip(NotADictText) # << >> THEN Strip(NotADictText)
             ELSE << "T", "o", "o", "l", " ", "r", "e", "t", "u", "r", "n", "e", "d", " ", "a", "n", " ", "e", "m", "p", "t", "y", " ", "r", "e", "s", "p", "o", "n", "s", "e", "." >>
    ELSE
        LET command   == raw_output.command
            exit_code == raw_output.exit_code
            stdout    == raw_output.stdout
            stderr    == raw_output.stderr
            has_err   == exit_code # 0 \/ (stderr # << >> /\ stdout = << >>)
            command_line == IF command # None /\ command # << >>
                                THEN << << "$", " " >> \o command >>
                            ELSE << >>
            exit_line == << << "E", "x", "i", "t", " ", "c", "o", "d", "e", ":", " " >> \o IntChars(exit_code) >>
            stdout_str == truncated_stdout(Strip(stdout))
            lines ==
                IF has_err THEN
                    command_line \o exit_line
                    \o (IF stdout # << >> THEN << << "S", "t", "d", "o", "u", "t", ":" >>, stdout_str >> ELSE << >>)
                    \o (IF stderr # << >> THEN << << "S", "t", "d", "e", "r", "r", ":" >>, Strip(stderr) >> ELSE << >>)
                ELSE IF stdout # << >> THEN command_line \o << stdout_str >>
                ELSE command_line \o exit_line
        IN  Strip(JoinLines(lines))

\* _format_tool_output("shell_agent", raw_output) of services/ollama_tools.py
ollama_tools_format_tool_output(raw_output) ==
    IF ~raw_output.is_dict THEN NotADictText
    ELSE << "C", "o", "m", "m", "a", "n", "d", ":", " " >> \o raw_output.command
         \o << "\n", "O", "u", "t", "p", "u", "t", ":", " " >> \o truncated_stdout(raw_output.stdout)
         \o << "\n", "E", "r", "r", "o", "r", ":", " " >> \o raw_output.stderr

\* raw_text
format_tool_output(variant, raw_output) ==
    IF variant = "ollama" THEN ollama_format_tool_output(raw_output)
    ELSE ollama_tools_format_tool_output(raw_output)

\* the entry appended to history: the text cut to
\* MAX_TOOL_OUTPUT_IN_HISTORY characters, with "..." when it was longer
tool_entry(raw_text) ==
    [role |-> "tool", name |-> "shell_agent",
     content |-> IF Len(raw_text) > MAX_TOOL_OUTPUT_IN_HISTORY
                     THEN SubSeq(raw_text, 1, MAX_TOOL_OUTPUT_IN_HISTORY)
                          \o << ".", ".", "." >>
                 ELSE raw_text]

\* the tool names whose output is returned without a summary
SkipTldrTools(variant) ==
    IF variant = "ollama" THEN { "shell_agent" }
    ELSE { "shell_agent", "cheat", "fetch_cheat", "cheat.sh" }

\* a test that sends every tool to the summary
skips_tldr_never(variant, tool_name) == FALSE

\* if tool_name == "shell_agent" (ollama.py), if tool_name in (...)
\* (ollama_tools.py)
skips_tldr(variant, tool_name) == tool_name \in SkipTldrTools(variant)

\* what tldr_tool_output gives: a summary, or nothing (None, an empty text
\* or an exception)
TldrOutcomes == { None, << "s", "u", "m" >> }

\* the summaries a call can obtain: tldr_tool_output is not called for a tool
\* that skips the summary
TldrOutcomesOf(variant, tool_name) ==
    IF skips_tldr(variant, tool_name) THEN { None } ELSE TldrOutcomes

\* the entry appended to history for a summary
assistant_entry(summary_text) ==
    [role |-> "assistant", name |-> "",
     content |-> << "T", "L", "D", "R", " ", "(", "f", "r", "o", "m", " ", "s", "h", "e", "l", "l", "_", "a", "g", "e", "n", "t", ")", ":", " " >> \o summary_text]

\* the locals once raw_output is known, with tldr_separate False: raw_text
\* is formatted and the tool entry appended to history; raw_text is returned
\* as it is for shell_agent, and any other tool would have its text
\* summarised, the summary appended to history and to the returned text
returned_with(f, raw_output, summary) ==
    LET raw_text == format_tool_output(f.variant, raw_output)
        called == [f EXCEPT !.raw_output = raw_output,
                            !.text = raw_text,
                            !.history = Append(@, tool_entry(raw_text)),
                            !.returned = raw_text,
                            !.pc = "returned"]
    IN  IF skips_tldr(f.variant, "shell_agent") THEN called
        ELSE IF summary # None /\ summary # << >>
            THEN [called EXCEPT
                    !.summaries = @ + 1,
                    !.history = Append(@, assistant_entry(summary)),
                    !.returned = raw_text \o << "\n", "\n", "T", "L", "D", "R", ":", " " >> \o summary]
        ELSE [called EXCEPT !.summaries = @ + 1]

\* after the loop: ollama.py takes last_output for raw_output;
\* ollama_tools.py translates the original prompt again when there are a
\* final command and a prompt, and replaces the result when the two commands
\* differ.  Either then formats raw_output, appends it to history and
\* returns the text.
Finish ==
    /\ frame.pc = "done"
    /\ LET final_command == final_command_of(frame.last_output) IN
       IF /\ frame.variant = "ollama_tools"
          /\ final_command # None
          /\ final_command # << >>
          /\ frame.original # << >>
           THEN \E llm_expected_command \in TranslatorReturns :
                \E summary \in TldrOutcomesOf(frame.variant, "shell_agent") :
               frame' = returned_with(
                   [frame EXCEPT !.rechecked = TRUE,
                                 !.expected = llm_expected_command],
                   raw_output_checked(frame.last_output, final_command,
                                      llm_expected_command),
                   summary)
       ELSE \E summary \in TldrOutcomesOf(frame.variant, "shell_agent") :
               frame' = returned_with(frame, frame.last_output, summary)
    /\ NotOfOrchestrator

NextOrchestrator == Execute \/ Refine \/ Cheat \/ Finish

\* the call runs in one thread that is never suspended for good: a step that
\* can be taken is taken
SpecOrchestrator ==
    InitOrchestrator /\ [][NextOrchestrator]_vars /\ WF_vars(NextOrchestrator)


-----------------------------------------------------------------------------
(* _format_tool_output("shell_agent", raw_output) of both modules, applied
   to the dictionaries an executor may return.  frame holds the dictionary
   and, once formatted, the text. *)

\* a text of n characters: a letter repeated, or the same ending in two
\* line ends
Repeated(n) == [i \in 1..n |-> "x"]
Padded(n) == [i \in 1..n |-> IF i + 2 > n THEN "\n" ELSE "x"]

\* the lengths of stdout: none, short, at the limit, just beyond it, and
\* well beyond it
StdoutLengths == { 0, 2, 16000, 16001, 16040, 17000 }

FormatStdouts ==
    { Repeated(n) : n \in StdoutLengths } \cup { Padded(n) : n \in StdoutLengths }

FormatStderrs ==
    { << >>, << " " >>, << "b", "a", "d" >>,
      << "N", "o", "t", " ", "f", "o", "u", "n", "d" >> }

FormatExitCodes == { 0, 1, -2 }

\* the dictionary to format: any exit code, stdout and stderr of the above
InitFormat ==
    /\ prompt = << >>
    /\ pc = "start"
    /\ ret = None
    /\ last_sanitize_error = NoError
    /\ last_translation_error = NoError
    /\ chats = 0
    /\ spawned = << >>
    /\ result = None
    /\ before = NoError
    /\ threads = << >>
    /\ \E variant \in Variants : \E exit_code \in FormatExitCodes :
       \E stdout \in FormatStdouts : \E stderr \in FormatStderrs :
        frame = [variant |-> variant, pc |-> "raw",
                 raw_output |-> Output(<< "l", "s" >>, exit_code, stdout, stderr),
                 text |-> << >>]

\* raw_text = _format_tool_output(tool_name, raw_output)
FormatToolOutput ==
    /\ frame.pc = "raw"
    /\ frame' = [frame EXCEPT
                   !.text = format_tool_output(frame.variant, frame.raw_output),
                   !.pc = "formatted"]
    /\ NotOfOrchestrator

NextFormat == FormatToolOutput

SpecFormat == InitFormat /\ [][NextFormat]_vars

-----------------------------------------------------------------------------
(* utils/tool_directives.py: ALLOWED_SHELL_CMDS, the program names the
   translator's system prompt advertises (services/ollama_shared.py) and the
   message handler routes to the shell agent (handlers/messages.py), each
   handed to sanitize_command as a command. *)

ALLOWED_SHELL_CMDS ==
    { <<"g","r","e","p">>, <<"a","w","k">>, <<"b","a","s","h">>, <<"b","c">>,
      <<"c","a","t">>, <<"c","d">>, <<"c","h","m","o","d">>,
      <<"c","h","o","w","n">>, <<"c","p">>, <<"c","u","r","l">>,
      <<"c","u","t">>, <<"d","a","t","e">>, <<"d","f">>, <<"d","u">>,
      <<"d","o","c","k","e","r">>, <<"e","c","h","o">>, <<"e","n","v">>,
      <<"f","i","n","d">>, <<"f","r","e","e">>, <<"g","i","t">>,
      <<"h","e","a","d">>, <<"h","o","s","t","n","a","m","e">>,
      <<"h","t","o","p">>, <<"u","p","t","i","m","e">>,
      <<"h","y","p","r","c","t","l">>, <<"i","f","c","o","n","f","i","g">>,
      <<"i","o","s","t","a","t">>, <<"i","p">>,
      <<"j","o","u","r","n","a","l","c","t","l">>, <<"t","a","r">>,
      <<"j","q">>, <<"k","i","l","l">>, <<"l","s">>, <<"l","s","b","l","k">>,
      <<"l","s","c","p","u">>, <<"m","k","d","i","r">>,
      <<"m","o","u","n","t">>, <<"m","v">>, <<"n","e","t","s","t","a","t">>,
      <<"n","o","d","e">>, <<"n","p","m">>, <<"p","i","n","g">>,
      <<"p","i","p">>, <<"p","l","a","y","e","r","c","t","l">>,
      <<"p","r","i","n","t","e","n","v">>, <<"p","s">>, <<"p","w","d">>,
      <<"p","y","t","h","o","n">>, <<"r","g">>,
      <<"s","y","s","t","e","m","c","t","l">>,
      <<"s","e","n","s","o","r","s">>, <<"s","e","r","v","i","c","e">>,
      <<"s","l","e","e","p">>, <<"s","s">>, <<"s","t","a","t">>,
      <<"s","u","d","o">>, <<"t","a","i","l">>, <<"s","o","r","t">>,
      <<"t","r","a","c","e","r","o","u","t","e">>, <<"t","e","s","t">>,
      <<"e","x","i","t">>, <<"t","o","p">>, <<"t","o","u","c","h">>,
      <<"u","m","o","u","n","t">>, <<"u","n","a","m","e">>,
      <<"u","n","z","i","p">>, <<"v","m","s","t","a","t">>,
      <<"w","g","e","t">>, <<"w","h","o","a","m","i">>, <<"z","i","p">> }

\* what follows the program name in the command: nothing, or an option
AdvertisedArguments == { << >>, << " ", "-", "h" >> }

\* the caller holds a command that starts with an advertised name
InitAdvertised ==
    /\ \E name \in ALLOWED_SHELL_CMDS : \E arguments \in AdvertisedArguments :
        prompt = name \o arguments
    /\ pc = "start"
    /\ ret = None
    /\ last_sanitize_error = NoError
    /\ last_translation_error = NoError
    /\ chats = 0
    /\ spawned = << >>
    /\ result = None
    /\ before = NoError
    /\ threads = << >>
    /\ frame = << >>

NextAdvertised == SanitizeCommand

SpecAdvertised == InitAdvertised /\ [][NextAdvertised]_vars

-----------------------------------------------------------------------------
(* Properties of the two command lists, checked under SpecAdvertised *)

\* the reasons of the unknown-binary rule and of the sudo rule
UnknownOrSudo ==
    { "commands starting with sudo are not allowed" } \cup
    { "unknown binary " \o Repr(name) \o "; only a curated safe list is allowed" :
          name \in ALLOWED_SHELL_CMDS }

\* C30 (as claimed): every advertised program name is in the sanitizer's
\* ALLOWED_COMMANDS, so that no command starting with an advertised name is
\* rejected as an unknown binary or as sudo.
C30_AdvertisedAreAllowed ==
    pc = "sanitized" =>
        \A name \in ALLOWED_SHELL_CMDS : \A arguments \in AdvertisedArguments :
            prompt = name \o arguments =>
                /\ Str(name) \in ALLOWED_COMMANDS
                /\ ~(ret = None /\ last_sanitize_error \in UnknownOrSudo)

-----------------------------------------------------------------------------
(* Properties of _format_tool_output, checked under SpecFormat *)

\* the text shows part somewhere
Shows(text, part) == ContainsText(text, part)

\* the text carries the first 16000 characters of s and right after them
\* the truncation marker
CutAndMarked(text, s) ==
    \E p \in 1..64 :
        /\ p + 16000 + Len(OutputTruncated) - 1 <= Len(text)
        /\ SubSeq(text, p, p + 15999) = SubSeq(s, 1, 16000)
        /\ SubSeq(text, p + 16000, p + 15999 + Len(OutputTruncated)) = OutputTruncated

\* C24 (as claimed): a result whose stdout is longer than 16000 characters
\* is rendered with the first 16000 characters of stdout followed by the
\* marker, in a text shorter than the raw stdout.
C24_TruncatedBelowRawLength ==
    (frame.pc = "formatted" /\ Len(frame.raw_output.stdout) > 16000) =>
        /\ CutAndMarked(frame.text, frame.raw_output.stdout)
        /\ Len(frame.text) < Len(frame.raw_output.stdout)

\* the stdout the formatter measures: ollama.py strips it first
MeasuredStdout ==
    IF frame.variant = "ollama" THEN Strip(frame.raw_output.stdout)
    ELSE frame.raw_output.stdout

\* C24 (amended): when the stdout the formatter measures (stripped, in
\* ollama.py) is longer than 16000 characters, the text carries its first
\* 16000 characters followed by the marker; when stripping brings it to
\* 16000 or less, it is rendered whole without a marker.  The text is at most
\* 16059 characters longer than command and stderr together, and so shorter
\* than any raw stdout longer than that.
C24_TruncatedToLimitPlusFraming ==
    (frame.pc = "formatted" /\ Len(frame.raw_output.stdout) > 16000) =>
        LET raw   == frame.raw_output
            limit == 16000 + Len(OutputTruncated) + 36
                     + Len(raw.command) + Len(raw.stderr)
        IN  /\ Len(MeasuredStdout) > 16000 => CutAndMarked(frame.text, MeasuredStdout)
            /\ Len(MeasuredStdout) <= 16000 =>
                   /\ ~Shows(frame.text, OutputTruncated)
                   /\ Shows(frame.text, MeasuredStdout)
            /\ Len(frame.text) <= limit
            /\ Len(raw.stdout) > limit => Len(frame.text) < Len(raw.stdout)

\* C24 witness: a stdout of 17000 characters was rendered by ollama.py with
\* the marker, in a text shorter than 17000 characters.
C24_Witness ==
    /\ frame.pc = "formatted"
    /\ frame.variant = "ollama"
    /\ frame.raw_output.stdout = Repeated(17000)
    /\ CutAndMarked(frame.text, frame.raw_output.stdout)
    /\ Len(frame.text) < 17000

\* the text is an error block for the result: it gives the exit code, and
\* stderr under its heading when there is any
IsErrorBlock(text, raw) ==
    /\ Shows(text, << "E", "x", "i", "t", " ", "c", "o", "d", "e", ":", " " >> \o IntChars(raw.exit_code))
    /\ Strip(raw.stderr) # << >> =>
           Shows(text, << "S", "t", "d", "e", "r", "r", ":" >> \o << "\n" >> \o Strip(raw.stderr))

\* the text is a compact success block: stdout alone, or the exit code alone
\* when stdout is empty, without headings
IsSuccessBlock(text, raw) ==
    /\ ~Shows(text, << "S", "t", "d", "o", "u", "t", ":" >>)
    /\ ~Shows(text, << "S", "t", "d", "e", "r", "r", ":" >>)
    /\ IF raw.stdout # << >> THEN ~Shows(text, << "E", "x", "i", "t", " ", "c", "o", "d", "e", ":", " " >>)
       ELSE Shows(text, << "E", "x", "i", "t", " ", "c", "o", "d", "e", ":", " " >> \o IntChars(raw.exit_code))

\* C28 (as claimed): the formatter renders the error block exactly for the
\* results the retry loop classifies as has_error, and the compact success
\* block for the others.
C28_FormatterAgreesWithLoop ==
    frame.pc = "formatted" =>
        IF has_error(frame.raw_output)
            THEN IsErrorBlock(frame.text, frame.raw_output)
        ELSE IsSuccessBlock(frame.text, frame.raw_output)

-----------------------------------------------------------------------------
(* Properties of call_tool_with_tldr, checked under SpecOrchestrator *)

\* the attempt the executor answered with output was a failure
Failed(output) == output.is_dict /\ has_error(output)

\* every execution of the call so far was a failure
EveryAttemptFailed ==
    \A i \in 1..Len(frame.outputs) : Failed(frame.outputs[i])

\* the result of the latest execution
LastExecution == frame.outputs[Len(frame.outputs)]

ComplianceMismatch ==
    /\ frame.variant = "ollama_tools"
    /\ frame.rechecked
    /\ frame.expected # None
    /\ norm(frame.expected) # norm(LastExecution.command)

Silent(output) ==
    /\ output.is_dict
    /\ output.exit_code = 0
    /\ output.stdout = << >>
    /\ output.stderr = << >>

\* the translator's latest answer
LastSuggested(f) == f.suggested[Len(f.suggested)]

\* C19: an execution result with exit code 0, empty stdout and empty stderr
\* is classified as a failure; the translator is then asked for an
\* alternative to the command that printed nothing, and when it returns one
\* while attempts remain, the loop goes on with that command: the call's
\* next step, which it does take, runs the executor with it.
C19_SilentSuccessIsRetried ==
    /\ [][/\ (frame.pc = "loop" /\ Silent(frame'.last_output)) =>
                 frame'.pc = "failed"
          /\ (frame.pc = "failed" /\ Silent(frame.last_output)) =>
                 /\ Len(frame'.asked) = Len(frame.asked) + 1
                 /\ frame'.asked[Len(frame'.asked)].failed = frame.last_output.command
                 /\ Len(frame'.suggested) = Len(frame.suggested) + 1
                 /\ (/\ LastSuggested(frame') # None
                     /\ frame.attempt < (IF frame.variant = "ollama" THEN 4 ELSE 3)) =>
                        /\ frame'.pc = "loop"
                        /\ frame'.prompt = LastSuggested(frame')
          /\ frame.pc = "loop" =>
                 frame'.calls = Append(frame.calls, frame.prompt)]_vars
    /\ (frame.pc = "loop") ~> (frame.pc # "loop")

\* C19 witness: the first command printed nothing and exited with 0, the
\* translator was asked and answered, and its command was executed next.
C19_Witness ==
    /\ Len(frame.outputs) >= 2
    /\ Silent(frame.outputs[1])
    /\ frame.asked[1].failed = frame.calls[1]
    /\ frame.suggested[1] # None
    /\ frame.calls[2] = frame.suggested[1]


\* three commands that differ in pairs
Distinct3(a, b, c) == a # b /\ a # c /\ b # c

\* the executor failed on each of the attempts 1 to 3 that took place and
\* succeeded on attempt 4 if it took place; the translator's first three
\* answers were three distinct commands, and no cheat sheet was fetched
FailsThriceThenSucceeds ==
    /\ \A i \in 1..Len(frame.outputs) :
           /\ i <= 3 => Failed(frame.outputs[i])
           /\ i = 4 => (frame.outputs[i].is_dict /\ ~has_error(frame.outputs[i]))
    /\ Len(frame.suggested) >= 3
    /\ \A i \in 1..3 : frame.suggested[i] # None
    /\ Distinct3(frame.suggested[1], frame.suggested[2], frame.suggested[3])
    /\ frame.cheats = << >>

\* C20 (as claimed): with an executor that fails on attempts 1 to 3 and
\* succeeds on attempt 4 and a translator that answers three distinct
\* commands, the executor is invoked with the original prompt and then with
\* each refined command in order, and the successful result of attempt 4 is
\* returned.
C20_FourthAttemptReturned ==
    (frame.pc = "returned" /\ FailsThriceThenSucceeds) =>
        /\ frame.calls = << frame.original, frame.suggested[1],
                            frame.suggested[2], frame.suggested[3] >>
        /\ Len(frame.outputs) = 4
        /\ frame.raw_output = frame.outputs[4]

\* C20 (amended): in ollama.py (max_attempts = 4) the executor is invoked
\* with the original prompt and the three refined commands in order and the
\* successful result of attempt 4 is returned; in ollama_tools.py
\* (max_attempts = 3) it is invoked with the original prompt and the first
\* two refined commands only, the third is never executed, and what is
\* returned is the failed result of attempt 3 or the compliance failure.
C20_FourthAttemptReturnedByOllama ==
    (frame.pc = "returned" /\ FailsThriceThenSucceeds) =>
        IF frame.variant = "ollama"
            THEN /\ frame.calls = << frame.original, frame.suggested[1],
                                     frame.suggested[2], frame.suggested[3] >>
                 /\ Len(frame.outputs) = 4
                 /\ frame.raw_output = frame.outputs[4]
        ELSE /\ frame.calls = << frame.original, frame.suggested[1],
                                 frame.suggested[2] >>
             /\ Len(frame.outputs) = 3
             /\ frame.raw_output \in
                    { frame.outputs[3],
                      Output(frame.suggested[2], -2, << >>, ComplianceFailure) }

\* C20 witness: ollama.py has returned the successful result of a fourth
\* attempt that ran the third refined command.
C20_Witness ==
    /\ frame.pc = "returned"
    /\ frame.variant = "ollama"
    /\ FailsThriceThenSucceeds
    /\ Len(frame.calls) = 4
    /\ frame.raw_output.stdout = << "o", "k" >>
    /\ frame.raw_output.command = frame.suggested[3]


\* the orchestrator classified the attempt the executor answered with
\* output as a success
Succeeded(output) == output.is_dict /\ ~has_error(output)

\* C21 (as claimed): when an attempt that ran a refined command is
\* classified as a success, no command is executed after it, and the text
\* the call returns shows that command and that attempt's stdout: the
\* result is that attempt's.
C21_RefinedSuccessReturned ==
    \A i \in 2..Len(frame.outputs) :
        Succeeded(frame.outputs[i]) =>
            /\ i = Len(frame.outputs)
            /\ frame.pc = "returned" =>
                   /\ frame.raw_output = frame.outputs[i]
                   /\ Shows(frame.text, frame.calls[i])
                   /\ Shows(frame.text, Strip(frame.outputs[i].stdout))

\* C21 (amended): no command is executed after a successful attempt that
\* ran a refined command; ollama.py returns the text of that attempt, with
\* the command and the stripped stdout; ollama_tools.py does so as well
\* unless its compliance check found a mismatch, and then the text shows the
\* refined command with an empty output and the compliance failure.
C21_RefinedSuccessReturnedUnlessMismatch ==
    \A i \in 2..Len(frame.outputs) :
        Succeeded(frame.outputs[i]) =>
            /\ i = Len(frame.outputs)
            /\ frame.pc = "returned" =>
                   IF ComplianceMismatch
                       THEN /\ frame.raw_output.exit_code = -2
                            /\ frame.raw_output.stdout = << >>
                            /\ Shows(frame.text, frame.calls[i])
                            /\ Shows(frame.text, ComplianceFailure)
                            /\ ~Shows(frame.text, frame.outputs[i].stdout)
                   ELSE /\ frame.raw_output = frame.outputs[i]
                        /\ Shows(frame.text, frame.calls[i])
                        /\ Shows(frame.text, Strip(frame.outputs[i].stdout))

\* C21 witness: the second attempt of ollama_tools.py ran the refined
\* command with success, the fresh translation of the prompt agreed with it
\* up to white space, and the attempt's text was returned.
C21_Witness ==
    /\ frame.pc = "returned"
    /\ frame.variant = "ollama_tools"
    /\ Len(frame.outputs) = 2
    /\ Succeeded(frame.outputs[2])
    /\ frame.rechecked
    /\ frame.expected # None
    /\ frame.expected # frame.calls[2]
    /\ frame.raw_output = frame.outputs[2]
    /\ Shows(frame.text, << "o", "k" >>)


\* the translator's answers to the refinement requests, one per failed
\* attempt: an answer of None that is not the last was followed by the
\* answer to the request made with the cheat sheet, which is left out
RECURSIVE RefineAnswers(_)
RefineAnswers(suggested) ==
    IF suggested = << >> THEN << >>
    ELSE IF Head(suggested) = None /\ Len(suggested) >= 2
        THEN << None >> \o RefineAnswers(Tail(Tail(suggested)))
    ELSE << Head(suggested) >> \o RefineAnswers(Tail(suggested))

\* C22 (as claimed): after a failed attempt, when the translator returns
\* nothing or returns the command that was just executed, the retrying
\* stops: no further command is executed and the result of that attempt is
\* what the call returns.
C22_StopsWithoutNewCommand ==
    LET answers == RefineAnswers(frame.suggested) IN
    \A k \in 1..Len(answers) :
        (answers[k] = None \/ answers[k] = frame.calls[k]) =>
            /\ Len(frame.calls) = k
            /\ frame.pc = "returned" => frame.raw_output = frame.outputs[k]


\* the words of a text: its maximal runs of characters that are no white
\* space
RECURSIVE WordsOf(_, _, _)
WordsOf(s, word, words) ==
    IF s = << >> THEN (IF word = << >> THEN words ELSE Append(words, word))
    ELSE IF Head(s) \in StripChars
        THEN WordsOf(Tail(s), << >>,
                     IF word = << >> THEN words ELSE Append(words, word))
    ELSE WordsOf(Tail(s), Append(word, Head(s)), words)

\* two commands with the same lower-cased, whitespace-collapsed text
SameNormalized(a, b) ==
    WordsOf(Lower(a), << >>, << >>) = WordsOf(Lower(b), << >>, << >>)

\* the original prompt was translated again after the loop and the answer
\* differs from the final executed command
RetranslationDiffers ==
    /\ frame.rechecked
    /\ frame.expected # None
    /\ ~SameNormalized(frame.expected, frame.last_output.command)

C25_ShellAgentSkipsTldr ==
    frame.pc = "returned" =>
        /\ frame.summaries = 0
        /\ frame.returned = format_tool_output(frame.variant, frame.raw_output)
        /\ ~Shows(frame.returned, << "T", "L", "D", "R", ":" >>)
        /\ Len(frame.history) = 1
        /\ frame.history[1].role = "tool"
        /\ \A i \in 1..Len(frame.history) : frame.history[i].role # "assistant"

\* C25 witness: a call that went through three attempts has returned its
\* text and left one tool entry holding it.
C25_Witness ==
    /\ frame.pc = "returned"
    /\ Len(frame.calls) = 3
    /\ frame.returned # << >>
    /\ frame.history = << tool_entry(frame.returned) >>


\* C26 (as claimed): every refinement request names the command that just
\* failed and the task the call was given, at the later attempts as at the
\* first.
C26_RefinementNamesOriginalTask ==
    \A k \in 1..Len(frame.asked) :
        /\ frame.asked[k].failed = frame.calls[k]
        /\ frame.asked[k].task = frame.original

\* C27 (as claimed): the cheat sheet is fetched only right after the
\* translator returned nothing for the attempt that just failed, and for
\* the primary binary of the prompt the call was given.
C27_CheatForOriginalBinary ==
    [][Len(frame'.cheats) > Len(frame.cheats) =>
           /\ Failed(frame.last_output)
           /\ LastSuggested(frame) = None
           /\ frame'.cheats =
                  Append(frame.cheats, primary_binary(frame.original))]_vars


\* the commands among the translator's answers
IsCommand(answer) == answer # None

\* C29 (as claimed): every refined command the translator gave during the
\* call was executed in a later attempt: when the call returns, the
\* executor has run the prompt and then each refined command, none of which
\* was asked for and dropped.
C29_EveryRefinementExecuted ==
    frame.pc = "returned" =>
        /\ Len(SelectSeq(frame.suggested, IsCommand)) = Len(frame.calls) - 1
        /\ \A j \in 1..Len(frame.suggested) :
               IsCommand(frame.suggested[j]) =>
                   \E i \in 2..Len(frame.calls) : frame.calls[i] = frame.suggested[j]

====
